---- MODULE Spec2Model ----
(***************************************************************************)
(* One compression job of the tinify client (blocking variant,             *)
(* src/src/sync/source.rs behind src/src/client.rs): upload through        *)
(* from_file / from_buffer / from_url, the operations resize and convert,  *)
(* and materialisation through to_file / to_buffer.  Every network request *)
(* is a blocking point: the action that sends it records it in `sent` and  *)
(* moves `pc`; a Recv action delivers the server's answer (or the          *)
(* transport failure) and runs the method up to its next request or its    *)
(* return.                                                                 *)
(*                                                                         *)
(* Option<T> is a sequence of length 0 (None) or 1 (Some).  A String is a  *)
(* sequence of one-character strings (JSON bodies) or of opaque pieces     *)
(* (URLs); a byte vector is a sequence of numbers.                         *)
(***************************************************************************)
EXTENDS Integers, Sequences, FiniteSets, TLC

VARIABLES
  key,       \* Client.key, handed to every Source the client creates
  pc,        \* where the calling thread is: "idle", blocked in a request, or "panicked"
  self,      \* the Source owned by the running method (Option)
  held,      \* the Source the caller holds, from the last Ok(Source) (Option)
  call,      \* name of the running / most recent public call
  rz,        \* argument of the running / most recent resize (Option)
  cv,        \* argument of the running / most recent convert (Option)
  loc,       \* local `url` of get_source_from_response while its GET is in flight
  sent,      \* requests passed to the HTTP client by the running / most recent call
  answered,  \* per answered request of `sent`: Some(status), or None if send() failed
  handled,   \* response given to get_source_from_response in that call (Option)
  fetched,   \* response of the follow-up GET of that call (Option)
  path,      \* branch get_source_from_response took: "none", "direct", "redirect"
  result,    \* "pending", "Ok", an error kind, or "panic"
  file,      \* bytes at the path of the most recent to_file (Option: None = no file)
  returned,  \* value returned by the most recent to_buffer (Option)
  opCalls,   \* resize/convert calls made on the job since its upload
  opPosts,   \* operation POSTs sent for the job since its upload
  origin,    \* bytes the running / most recent from_file read at its path, or
             \* from_url read from the answer to its GET (Option: None = not read)
  async,     \* async_bin::Source given the same calls and answers: its pc,
             \* self, held, sent, result, loc, file and returned
  jobs,      \* per thread of two that share one Client: its job (pc, self, held,
             \* sent, result, loc)
  inputs,    \* per thread: the call it made and what its requests met, in order
  OPTIONS,   \* tinify.rs: the process-wide map behind the Mutex
  callers,   \* tinify.rs: per thread, where it is in get_client and what it got
  set_keys,  \* tinify.rs: the arguments of the set_key calls made so far
  last_key,  \* tinify.rs: the argument of the most recent set_key (Option)
  data,      \* result.rs: Result.data, the bytes under the guard
  copy,      \* result.rs: `buffer` of a running to_buffer (Option)
  taken,     \* result.rs: data as it was when the running to_buffer began
  new        \* result.rs: the vector the most recent to_buffer returned (Option)

\* one caller and its job
source_vars ==
  <<key, pc, self, held, call, rz, cv, loc, sent, answered, handled, fetched,
    path, result, file, returned, opCalls, opPosts, origin, async>>

\* two threads on one Client
jobs_vars == <<jobs, inputs>>

\* the legacy free functions of tinify.rs
tinify_vars == <<OPTIONS, callers, set_keys, last_key>>

\* the legacy Result of result.rs
result_vars == <<data, copy, taken, new>>

\* what a step of the single caller leaves alone
aside == <<jobs_vars, tinify_vars, result_vars>>

vars == <<source_vars, jobs_vars, tinify_vars, result_vars>>

----------------------------------------------------------------------------
(* Bounds *)

MaxBody == 1      \* longest byte vector (input image, response body)
MaxDim == 1      \* number of distinct width / height values
MaxOps == 2      \* resize/convert calls chained on one job

----------------------------------------------------------------------------
(* Option, strings, bytes *)

None == <<>>
Some(x) == <<x>>
IsSome(o) == Len(o) = 1
IsNone(o) == Len(o) = 0
Unwrap(o) == o[1]
Option(S) == {None} \cup {Some(x) : x \in S}

Body(n) == [i \in 1..n |-> i]
Bodies == {Body(n) : n \in 0..MaxBody}

Keys == {"invalid"}

\* reqwest::StatusCode values the code names, and others a server may send
BAD_REQUEST == 400
UNAUTHORIZED == 401
UNSUPPORTED_MEDIA_TYPE == 415
SERVICE_UNAVAILABLE == 503
Statuses == {200, 201, 500, BAD_REQUEST, UNAUTHORIZED, UNSUPPORTED_MEDIA_TYPE,
             SERVICE_UNAVAILABLE}
\* Statuses of the answers to a GET: one of each kind Source::request tells apart
GetStatuses == {200, 500, UNAUTHORIZED, UNSUPPORTED_MEDIA_TYPE,
                SERVICE_UNAVAILABLE}

API_ENDPOINT == <<"https://api.tinify.com">>
SHRINK == <<"/shrink">>
EmptyStr == <<>>
ResultUrl == <<"https://host/result">>
OtherUrl == <<"https://host/other">>
ImageUrl == <<"https://tinypng.com/images/panda-happy.png">>

\* A header value is a byte string; `valid` tells whether it is UTF-8.
HeaderValue(valid, str) == [valid |-> valid, str |-> str]
LocationValues == {HeaderValue(TRUE, EmptyStr), HeaderValue(TRUE, ResultUrl),
                   HeaderValue(TRUE, OtherUrl), HeaderValue(FALSE, EmptyStr)}

\* A response: status, the Location header if any, and the body; body = None
\* stands for a body whose download fails (Response::bytes returns Err).
Responses == [status : Statuses, location : Option(LocationValues),
              body : Option(Bodies)]
\* Answers to a GET: the code reads only their status and body.
GetResponses == {r \in Responses : r.location = None /\ r.status \in GetStatuses}

\* reqwest refuses to send to a string that is not an absolute URL.
IsUrl(u) == u # EmptyStr

Request(method, url, auth, ctype, body, json) ==
  [method |-> method, url |-> url, auth |-> auth, ctype |-> ctype,
   body |-> body, json |-> json]

----------------------------------------------------------------------------
(* Strings and JSON text, character by character *)

\* u32 Display / serde_json number
Digit(d) == <<"0", "1", "2", "3", "4", "5", "6", "7", "8", "9">>[d + 1]
RECURSIVE ToDec(_)
ToDec(n) == IF n < 10 THEN <<Digit(n)>> ELSE ToDec(n \div 10) \o <<Digit(n % 10)>>

\* concatenation of a sequence of strings
RECURSIVE Flat(_)
Flat(ss) ==
  IF Len(ss) = 0 THEN <<>>
  ELSE IF Len(ss) = 1 THEN ss[1]
  ELSE LET h == Len(ss) \div 2
       IN  Flat(SubSeq(ss, 1, h)) \o Flat(SubSeq(ss, h + 1, Len(ss)))

\* positions where pat occurs in s
Matches(s, pat) ==
  {i \in 1..(Len(s) - Len(pat) + 1) :
     s[i] = pat[1] /\ SubSeq(s, i, i + Len(pat) - 1) = pat}

\* left-to-right scan from `start`: the text up to the first match at or after
\* `start`, the replacement, and the scan resumes behind that match
RECURSIVE Splice(_, _, _, _, _)
Splice(s, start, M, m, to) ==
  LET C == {i \in M : i >= start}
  IN  IF C = {} THEN SubSeq(s, start, Len(s))
      ELSE LET i == CHOOSE x \in C : \A y \in C : x <= y
           IN  SubSeq(s, start, i - 1) \o to \o Splice(s, i + m, M, m, to)

\* str::replace(from, to): every non-overlapping match, left to right
Replace(s, from, to) == Splice(s, 1, Matches(s, from), Len(from), to)

\* s contains pat
Contains(s, pat) == Matches(s, pat) # {}

\* serde_json string: quotes around the text, " and \ escaped
Escape(s) ==
  Flat([i \in 1..Len(s) |->
          IF s[i] = "\"" THEN <<"\\", "\"">>
          ELSE IF s[i] = "\\" THEN <<"\\", "\\">>
          ELSE <<s[i]>>])
ser_string(s) == <<"\"">> \o Escape(s) \o <<"\"">>

\* serde_json for Vec<String>
RECURSIVE ser_items(_)
ser_items(v) ==
  IF v = <<>> THEN <<>>
  ELSE IF Len(v) = 1 THEN ser_string(v[1])
  ELSE ser_string(v[1]) \o <<",">> \o ser_items(Tail(v))
ser_vec(v) == <<"[">> \o ser_items(v) \o <<"]">>

METHOD_KEY == <<"\"", "m", "e", "t", "h", "o", "d", "\"", ":">>
WIDTH_KEY == <<"\"", "w", "i", "d", "t", "h", "\"", ":">>
HEIGHT_KEY == <<"\"", "h", "e", "i", "g", "h", "t", "\"", ":">>
NULL == <<"n", "u", "l", "l">>
RESIZE_KEY == <<"\"", "r", "e", "s", "i", "z", "e", "\"", ":">>
HEIGHT_NULL == <<",", "\"", "h", "e", "i", "g", "h", "t", "\"", ":", "n", "u", "l", "l">>
WIDTH_NULL == <<",", "\"", "w", "i", "d", "t", "h", "\"", ":", "n", "u", "l", "l">>
CONVERT_KEY == <<"\"", "c", "o", "n", "v", "e", "r", "t", "\"", ":">>
CONVERT_TYPE_KEY == <<"\"", "c", "o", "n", "v", "e", "r", "t", "_", "t", "y", "p", "e", "\"", ":">>
TRANSFORM_KEY == <<"\"", "t", "r", "a", "n", "s", "f", "o", "r", "m", "\"", ":">>
BACKGROUND_KEY == <<"\"", "b", "a", "c", "k", "g", "r", "o", "u", "n", "d", "\"", ":">>
CONVERT_TYPE_QUOTED == <<"\"", "c", "o", "n", "v", "e", "r", "t", "_", "t", "y", "p", "e", "\"">>
TYPE_QUOTED == <<"\"", "t", "y", "p", "e", "\"">>
TRANSFORM_NULL == <<",", "\"", "t", "r", "a", "n", "s", "f", "o", "r", "m", "\"", ":", "n", "u", "l", "l">>
QUOTE_BRACKET == <<"\"", "[">>
BRACKET_QUOTE == <<"]", "\"">>
ESCAPED_QUOTE == <<"\\", "\"">>
QUOTE == <<"\"">>
APPLICATION_JSON == <<"application/json">>

\* convert::Type constants
PNG == <<"i", "m", "a", "g", "e", "/", "p", "n", "g">>
JPEG == <<"i", "m", "a", "g", "e", "/", "j", "p", "e", "g">>
WEBP == <<"i", "m", "a", "g", "e", "/", "w", "e", "b", "p">>
WILDCARD == <<"*", "/", "*">>
TypeNames == {PNG}
\* every constant of convert::Type
Types == {PNG, JPEG, WEBP, WILDCARD}
\* convert::Color values
WHITE == <<"w", "h", "i", "t", "e">>
Colors == {WHITE}

\* resize::Method and its serde names
Methods == {"Scale", "Fit", "Cover", "Thumb"}
method_name(m) ==
  CASE m = "Scale" -> <<"s", "c", "a", "l", "e">>
    [] m = "Fit" -> <<"f", "i", "t">>
    [] m = "Cover" -> <<"c", "o", "v", "e", "r">>
    [] m = "Thumb" -> <<"t", "h", "u", "m", "b">>

DimValues == 9..(8 + MaxDim)
Resizes == [method : Methods, width : Option(DimValues), height : Option(DimValues)]

\* an Option<u32> field without skip_serializing_if: None is written as null
\* (mutant)
ser_dim_null(field_key, dim) ==
  <<",">> \o field_key \o (IF IsNone(dim) THEN NULL ELSE ToDec(Unwrap(dim)))

\* #[serde(skip_serializing_if = "Option::is_none")] on an Option<u32> field
ser_dim(field_key, dim) ==
  IF IsNone(dim) THEN <<>> ELSE <<",">> \o field_key \o ToDec(Unwrap(dim))

\* derive(Serialize) for resize::Resize
ser_resize(resize) ==
  <<"{">> \o METHOD_KEY \o ser_string(method_name(resize.method))
    \o ser_dim(WIDTH_KEY, resize.width) \o ser_dim(HEIGHT_KEY, resize.height)
    \o <<"}">>

\* resize::JsonData { resize }: the object that wraps the descriptor
ser_resize_json_data(resize) ==
  <<"{">> \o RESIZE_KEY \o ser_resize(resize) \o <<"}">>

\* Source::resize, the body it builds
resize_body(resize) ==
  LET json_string == ser_resize_json_data(resize)
      width == resize.width
      height == resize.height
  IN  IF IsSome(width) /\ IsNone(height) THEN Replace(json_string, HEIGHT_NULL, <<>>)
      ELSE IF IsSome(height) /\ IsNone(width) THEN Replace(json_string, WIDTH_NULL, <<>>)
      ELSE json_string

\* derive(Serialize) for convert::Transform and Option<Transform>
ser_transform(transform) ==
  IF IsNone(transform) THEN NULL
  ELSE <<"{">> \o BACKGROUND_KEY \o ser_string(Unwrap(transform)) \o <<"}">>

\* JsonData with an optional convert that is left out beside a transform
\* (mutant)
ser_convert_json_data_optional(convert_type, transform) ==
  IF IsSome(transform)
    THEN <<"{">> \o TRANSFORM_KEY \o ser_transform(transform) \o <<"}">>
    ELSE <<"{">> \o CONVERT_KEY \o <<"{">> \o CONVERT_TYPE_KEY
           \o ser_string(convert_type) \o <<"}">> \o <<",">> \o TRANSFORM_KEY
           \o ser_transform(transform) \o <<"}">>

\* derive(Serialize) for convert::JsonData { convert: Convert { convert_type }, transform }
ser_convert_json_data(convert_type, transform) ==
  <<"{">> \o CONVERT_KEY \o <<"{">> \o CONVERT_TYPE_KEY \o ser_string(convert_type)
    \o <<"}">> \o <<",">> \o TRANSFORM_KEY \o ser_transform(transform) \o <<"}">>

\* Source::convert: the types that are Some, in order
RECURSIVE filter_some(_)
filter_some(types) ==
  IF types = <<>> THEN <<>>
  ELSE (IF IsSome(types[1]) THEN <<Unwrap(types[1])>> ELSE <<>>)
         \o filter_some(Tail(types))

\* parse_type with the array kept for three types only (mutant)
parse_type_three(count) ==
  IF Len(count) >= 3 THEN ser_vec(count) ELSE count[1]

\* Source::convert: parse_type, for a non-empty count
parse_type(count) ==
  IF Len(count) >= 2 THEN ser_vec(count) ELSE count[1]

\* Source::convert, the body it builds
convert_body(count, transform) ==
  Replace(Replace(Replace(Replace(Replace(
    ser_convert_json_data(parse_type(count), transform),
    CONVERT_TYPE_QUOTED, TYPE_QUOTED),
    TRANSFORM_NULL, <<>>),
    QUOTE_BRACKET, <<"[">>),
    BRACKET_QUOTE, <<"]">>),
    ESCAPED_QUOTE, QUOTE)

ConvertArgs == [types : [1..3 -> Option(TypeNames)], transform : Option(Colors)]
\* the arguments of convert over every constant of convert::Type
TypeArgs == [types : [1..3 -> Option(Types)], transform : Option(Colors)]

\* Color is a tuple struct over any &'static str: the documented values (a
\* name, a hex value) and strings with the characters the replacements of
\* convert look for
ColorStrings ==
  {WHITE, <<"#", "0", "0", "0", "0", "0", "0">>, <<"\"">>, <<"[", "0", "]">>}
\* the arguments of convert over every colour string
ColorArgs == [types : [1..3 -> Option(TypeNames)], transform : Option(ColorStrings)]

\* Source::resize, the body it builds, tabulated per argument (f @@ <<>> is f,
\* held as an explicit table)
resize_bodies == [r \in Resizes |-> resize_body(r)] @@ <<>>

\* Source::convert, the body it builds, tabulated per argument that supplies
\* a type
convert_bodies ==
  [c \in TypeArgs \cup ColorArgs |->
     IF filter_some(c.types) = <<>> THEN <<>>
     ELSE convert_body(filter_some(c.types), c.transform)] @@ <<>>

----------------------------------------------------------------------------
(* Source *)

\* Source::new(url, key): buffer starts None
SourceNew(url, k) == [url |-> url, key |-> k, buffer |-> None]

\* Client::get_source
get_source == SourceNew(None, Some(key))

\* Source::request without `if let Some(buffer) = buffer`: the POST carries an
\* empty body (mutant)
request_build_no_body(s, url, method, buffer) ==
  IF method = "POST"
    THEN Request("POST", API_ENDPOINT \o url, Some(<<"api", s.key>>), None,
                 Some(<<>>), None)
    ELSE Request("GET", url, None, None, None, None)

\* Source::request with basic_auth on the GET arm as well (mutant)
request_build_get_auth(s, url, method, buffer) ==
  IF method = "POST"
    THEN Request("POST", API_ENDPOINT \o url, Some(<<"api", s.key>>), None,
                 Some(buffer), None)
    ELSE Request("GET", url, Some(<<"api", s.key>>), None, None, None)

\* Source::request, the request it builds
request_build(s, url, method, buffer) ==
  IF method = "POST"
    THEN Request("POST", API_ENDPOINT \o url, Some(<<"api", s.key>>), None,
                 Some(buffer), None)
    ELSE Request("GET", url, None, None, None, None)

\* Source::request without the arm for 401 (mutant)
request_status_no_401(status) ==
  CASE status = UNSUPPORTED_MEDIA_TYPE -> "ClientError"
    [] status = SERVICE_UNAVAILABLE -> "ServerError"
    [] OTHER -> "Ok"

\* Source::request with 415 taken for a server error (mutant)
request_status_415_server(status) ==
  CASE status = UNAUTHORIZED -> "ClientError"
    [] status = UNSUPPORTED_MEDIA_TYPE -> "ServerError"
    [] status = SERVICE_UNAVAILABLE -> "ServerError"
    [] OTHER -> "Ok"

\* Source::request, the match on response.status()
request_status(status) ==
  CASE status = UNAUTHORIZED -> "ClientError"
    [] status = UNSUPPORTED_MEDIA_TYPE -> "ClientError"
    [] status = SERVICE_UNAVAILABLE -> "ServerError"
    [] OTHER -> "Ok"

\* the Location text taken as a path under API_ENDPOINT, as request does for
\* a POST (mutant)
location_url_prefixed(location) == API_ENDPOINT \o location.str

\* get_source_from_response: the url built from the Location header
location_url(location) ==
  IF location.str # EmptyStr THEN location.str ELSE EmptyStr

\* the else branch without `self.url = None` (mutant)
direct_source_keeps_url(s, bytes) == [s EXCEPT !.buffer = Some(bytes)]

\* get_source_from_response, else branch: the response's own body, url cleared
direct_source(s, bytes) == [s EXCEPT !.buffer = Some(bytes), !.url = None]

\* the if branch without `self.buffer = Some(bytes.to_vec())` (mutant)
redirect_source_no_buffer(s, bytes, url) == [s EXCEPT !.url = Some(url)]

\* get_source_from_response, if branch after the GET: its body, url = location
redirect_source(s, bytes, url) ==
  [s EXCEPT !.buffer = Some(bytes), !.url = Some(url)]

----------------------------------------------------------------------------
(* Returns *)

\* The running method returns Err(kind): its Source is dropped.
ReturnErr(kind) ==
  /\ pc' = "idle"
  /\ result' = kind
  /\ self' = None
  /\ held' = None

\* The running method returns Ok(source).
ReturnOk(s) ==
  /\ pc' = "idle"
  /\ result' = "Ok"
  /\ self' = None
  /\ held' = Some(s)

\* An unwrap() on None / Err: the thread unwinds.
Panic ==
  /\ pc' = "panicked"
  /\ result' = "panic"
  /\ self' = None
  /\ held' = None

\* get_source_from_response(self, response), up to its GET or its return
get_source_from_response(s, response) ==
  /\ handled' = Some(response)
  /\ IF IsSome(response.location)
       THEN /\ path' = "redirect"
            /\ IF ~Unwrap(response.location).valid
                 THEN \* str::from_utf8(..).unwrap()
                      /\ Panic
                      /\ UNCHANGED <<loc, sent>>
                 ELSE LET url == location_url(Unwrap(response.location)) IN
                      /\ loc' = url
                      /\ sent' = Append(sent, request_build(s, url, "GET", None))
                      /\ pc' = "location"
                      /\ self' = Some(s)
                      /\ UNCHANGED <<held, result>>
       ELSE /\ path' = "direct"
            /\ UNCHANGED <<loc, sent>>
            /\ IF IsNone(response.body)
                 THEN ReturnErr("ReqwestError")
                 ELSE ReturnOk(direct_source(s, Unwrap(response.body)))

\* A public call starts: the record of the previous call is cleared (each
\* caller also resets rz, cv, returned and file).
Begin(name) ==
  /\ pc = "idle"
  /\ call' = name
  /\ handled' = None
  /\ fetched' = None
  /\ path' = "none"
  /\ loc' = EmptyStr
  /\ answered' = <<>>

----------------------------------------------------------------------------
(* async_bin::Source, run on the same calls, results of the file system and
   answers of the server as the blocking Source.  Its state is the record
   `async`; every operator below maps that record to the record after the
   step.  A step ends where the future waits for an answer. *)

\* async_bin Source::new
async_new(url, k) == [url |-> url, key |-> k, buffer |-> None]

\* async_bin Client::new, the Source the client carries
async_source == async_new(None, Some(key))

\* the record before any call
async_idle ==
  [pc |-> "idle", self |-> None, held |-> None, sent |-> <<>>,
   result |-> "none", loc |-> EmptyStr, file |-> None, returned |-> None]

\* a public call starts on the record
async_begin(a) ==
  [a EXCEPT !.sent = <<>>, !.loc = EmptyStr, !.file = None, !.returned = None]

\* async_bin Source::request, the request it builds
async_request_build(s, url, method, buffer) ==
  IF method = "POST"
    THEN Request("POST", API_ENDPOINT \o url, Some(<<"api", s.key>>), None,
                 Some(buffer), None)
    ELSE Request("GET", url, None, None, None, None)

\* async_bin Source::request with 503 let through (mutant)
async_request_status_503_ok(status) ==
  CASE status = UNAUTHORIZED -> "ClientError"
    [] status = UNSUPPORTED_MEDIA_TYPE -> "ClientError"
    [] OTHER -> "Ok"

\* async_bin Source::request, the match on response.status()
async_request_status(status) ==
  CASE status = UNAUTHORIZED -> "ClientError"
    [] status = UNSUPPORTED_MEDIA_TYPE -> "ClientError"
    [] status = SERVICE_UNAVAILABLE -> "ServerError"
    [] OTHER -> "Ok"

\* the future resolves to Err(kind)
async_err(a, kind) ==
  [a EXCEPT !.pc = "idle", !.result = kind, !.self = None, !.held = None]

\* the future resolves to Ok(source)
async_ok(a, s) ==
  [a EXCEPT !.pc = "idle", !.result = "Ok", !.self = None, !.held = Some(s)]

\* an unwrap() on None / Err inside the future
async_panic(a) ==
  [a EXCEPT !.pc = "panicked", !.result = "panic", !.self = None,
            !.held = None]

\* the request is sent and the future waits at `at`
async_await(a, s, request, at) ==
  [a EXCEPT !.pc = at, !.result = "pending", !.self = Some(s), !.held = None,
            !.sent = Append(a.sent, request)]

\* async_bin get_source_from_response, up to its GET or its return
async_get_source_from_response(a, s, response) ==
  IF IsSome(response.location)
    THEN LET location == Unwrap(response.location)
             is_empty == location.valid /\ location.str = EmptyStr
         IN
         IF ~is_empty /\ ~location.valid
           THEN async_panic(a)
           ELSE LET url == IF ~is_empty THEN location.str ELSE EmptyStr
                IN  [async_await(a, s, async_request_build(s, url, "GET", None),
                                 "location") EXCEPT !.loc = url]
    ELSE IF IsNone(response.body)
      THEN async_err(a, "ReqwestError")
      ELSE async_ok(a, [s EXCEPT !.buffer = Some(Unwrap(response.body)),
                                 !.url = None])

\* async_bin from_buffer, up to the POST /shrink
async_from_buffer(a, buffer) ==
  async_await(async_begin(a), async_source,
              async_request_build(async_source, SHRINK, "POST", buffer),
              "shrink")

\* async_bin from_file: open, read_to_end, then from_buffer
async_from_file(a, read, bytes) ==
  CASE read = "open_fails" -> async_err(async_begin(a), "ReadError")
    [] read = "read_fails" -> async_err(async_begin(a), "IOError")
    [] OTHER -> async_from_buffer(a, bytes)

\* async_bin from_url, up to the GET of the caller's url
async_from_url(a, url) ==
  async_await(async_begin(a), async_source,
              async_request_build(async_source, url, "GET", None), "fetch")

\* send().await fails
async_SendFails(a) == async_err(a, "ReqwestError")

\* async_bin from_url after its GET is answered
async_RecvFetch(a, response) ==
  IF async_request_status(response.status) # "Ok"
    THEN async_err(a, async_request_status(response.status))
  ELSE IF IsNone(response.body)
    THEN async_err(a, "ReqwestError")
  ELSE async_await(a, Unwrap(a.self),
                   async_request_build(Unwrap(a.self), SHRINK, "POST",
                                       Unwrap(response.body)),
                   "shrink")

\* async_bin from_buffer / from_url after the POST /shrink is answered
async_RecvShrink(a, response) ==
  IF async_request_status(response.status) # "Ok"
    THEN async_err(a, async_request_status(response.status))
    ELSE async_get_source_from_response(a, Unwrap(a.self), response)

\* async_bin get_source_from_response after its GET is answered
async_RecvLocation(a, response) ==
  IF async_request_status(response.status) # "Ok"
    THEN async_err(a, async_request_status(response.status))
  ELSE IF IsNone(response.body)
    THEN async_err(a, "ReqwestError")
  ELSE async_ok(a, [Unwrap(a.self) EXCEPT
                      !.buffer = Some(Unwrap(response.body)),
                      !.url = Some(a.loc)])

\* async_bin resize, the body it builds
async_resize_body(resize) ==
  LET json_string == ser_resize_json_data(resize)
      width == resize.width
      height == resize.height
  IN  CASE IsSome(width) /\ IsNone(height) ->
             Replace(json_string, HEIGHT_NULL, <<>>)
        [] ~(IsSome(width) /\ IsNone(height))
             /\ IsSome(height) /\ IsNone(width) ->
             Replace(json_string, WIDTH_NULL, <<>>)
        [] OTHER -> json_string

\* async_bin resize / convert from self.url.as_ref().unwrap() to send()
async_send_operation(a, json_string) ==
  LET s == Unwrap(a.held) IN
  IF IsNone(s.url)
    THEN async_panic(async_begin(a))
    ELSE async_await(async_begin(a), s,
                     Request("POST", Unwrap(s.url), Some(<<"api", s.key>>),
                             Some(APPLICATION_JSON), None, Some(json_string)),
                     "op")

\* async_bin resize, the body it builds, tabulated per argument
async_resize_bodies == [r \in Resizes |-> async_resize_body(r)] @@ <<>>

\* async_bin resize, up to its POST
async_resize(a, r) == async_send_operation(a, async_resize_bodies[r])

\* async_bin convert: the types that are Some, in order
async_count(types) ==
  LET at == {i \in 1..Len(types) : IsSome(types[i])}
      nth(k) == CHOOSE i \in at : Cardinality({j \in at : j < i}) = k - 1
  IN  [k \in 1..Cardinality(at) |-> Unwrap(types[nth(k)])]

\* async_bin convert, the body it builds for a non-empty count
async_convert_body(count, transform) ==
  LET parsed == IF Len(count) >= 2 THEN ser_vec(count) ELSE count[1]
      template == ser_convert_json_data(parsed, transform)
      typed == Replace(template, CONVERT_TYPE_QUOTED, TYPE_QUOTED)
      plain == Replace(typed, TRANSFORM_NULL, <<>>)
      opened == Replace(plain, QUOTE_BRACKET, <<"[">>)
      closed == Replace(opened, BRACKET_QUOTE, <<"]">>)
  IN  Replace(closed, ESCAPED_QUOTE, QUOTE)

\* async_bin convert, the body it builds, tabulated per argument that supplies
\* a type
async_convert_bodies ==
  [c \in TypeArgs \cup ColorArgs |->
     IF async_count(c.types) = <<>> THEN <<>>
     ELSE async_convert_body(async_count(c.types), c.transform)] @@ <<>>

\* async_bin convert, up to its POST
async_convert(a, c) ==
  IF async_count(c.types) = <<>>
    THEN async_panic(async_begin(a))
    ELSE async_send_operation(a, async_convert_bodies[c])

\* async_bin resize / convert after the POST is answered
async_RecvOp(a, response) ==
  IF response.status = BAD_REQUEST
    THEN async_err(a, "ClientError")
    ELSE async_get_source_from_response(a, Unwrap(a.self), response)

\* async_bin to_file; n bytes reach the file when the write fails
async_to_file(a, before, io, n) ==
  LET s == Unwrap(a.held)
      b == async_begin(a)
  IN  CASE io = "create_fails" ->
             [b EXCEPT !.file = before, !.result = "WriteError"]
        [] io # "create_fails" /\ IsNone(s.buffer) ->
             [b EXCEPT !.file = Some(<<>>), !.pc = "panicked",
                       !.result = "panic", !.held = None]
        [] io = "write_fails" /\ IsSome(s.buffer) ->
             [b EXCEPT !.file = Some(SubSeq(Unwrap(s.buffer), 1, n)),
                       !.result = "IOError"]
        [] OTHER ->
             [b EXCEPT !.file = Some(Unwrap(s.buffer)), !.result = "Ok"]

\* to_buffer that moves the bytes out of the Source (mutant)
async_to_buffer_take(a) ==
  LET s == Unwrap(a.held)
      b == async_begin(a)
  IN  IF IsNone(s.buffer)
        THEN [b EXCEPT !.pc = "panicked", !.result = "panic", !.held = None]
        ELSE [b EXCEPT !.returned = Some(Unwrap(s.buffer)), !.result = "Ok",
                       !.held = Some([s EXCEPT !.buffer = Some(<<>>)])]

\* async_bin to_buffer
async_to_buffer(a) ==
  LET s == Unwrap(a.held)
      b == async_begin(a)
  IN  IF IsNone(s.buffer)
        THEN [b EXCEPT !.pc = "panicked", !.result = "panic", !.held = None]
        ELSE [b EXCEPT !.returned = Some(Unwrap(s.buffer)), !.result = "Ok"]

----------------------------------------------------------------------------
(* Two threads start one job each on the same Client.  A job is stepped by
   what its own thread meets: its call, the answer to its request in flight,
   or the failure of that request. *)

Threads == {1, 2}

\* the job of a thread that has not called yet
job_idle ==
  [pc |-> "idle", self |-> None, held |-> None, sent |-> <<>>,
   result |-> "none", loc |-> EmptyStr]

\* the calls a thread may make, and what may come back to it
JobCalls ==
  {[op |-> "from_buffer", arg |-> Some(b)] : b \in Bodies}
    \cup {[op |-> "from_url", arg |-> Some(Body(0))]}
JobAnswers ==
  [status : {201, UNAUTHORIZED}, location : {None, Some(HeaderValue(TRUE, ResultUrl))},
   body : {Some(b) : b \in Bodies}]
JobGetAnswers ==
  [status : {200, SERVICE_UNAVAILABLE}, location : {None},
   body : {Some(b) : b \in Bodies}]

\* `?` on an Err: the job ends without a Source
job_err(job, kind) ==
  [job EXCEPT !.pc = "idle", !.result = kind, !.self = None, !.held = None]

\* Ok(self)
job_ok(job, s) ==
  [job EXCEPT !.pc = "idle", !.result = "Ok", !.self = None, !.held = Some(s)]

\* the request is sent and the thread blocks at `at`
job_send(job, s, request, at) ==
  [job EXCEPT !.pc = at, !.result = "pending", !.self = Some(s),
              !.sent = Append(job.sent, request)]

\* Client::from_buffer / Client::from_url: get_source(), then the first
\* request of the Source
job_call(job, c) ==
  IF c.op = "from_buffer"
    THEN job_send(job, get_source,
                  request_build(get_source, SHRINK, "POST", Unwrap(c.arg)),
                  "shrink")
    ELSE job_send(job, get_source,
                  request_build(get_source, ImageUrl, "GET", None), "fetch")

\* the request in flight is answered: the rest of from_url, from_buffer or
\* get_source_from_response up to the next request or the return
job_answer(job, response) ==
  LET s == Unwrap(job.self) IN
  IF request_status(response.status) # "Ok"
    THEN job_err(job, request_status(response.status))
  ELSE CASE job.pc = "fetch" ->
              job_send(job, s,
                       request_build(s, SHRINK, "POST", Unwrap(response.body)),
                       "shrink")
         [] job.pc = "shrink" /\ IsSome(response.location) ->
              LET url == location_url(Unwrap(response.location)) IN
              [job_send(job, s, request_build(s, url, "GET", None), "location")
                 EXCEPT !.loc = url]
         [] job.pc = "shrink" /\ IsNone(response.location) ->
              job_ok(job, direct_source(s, Unwrap(response.body)))
         [] OTHER ->
              job_ok(job, redirect_source(s, Unwrap(response.body), job.loc))

\* one step of one job
job_step(job, in) ==
  CASE in.op \in {"from_buffer", "from_url"} -> job_call(job, in)
    [] in.op = "answer" -> job_answer(job, Unwrap(in.arg))
    [] OTHER -> job_err(job, "ReqwestError")

\* a job stepped on a Source that the Client hands to all its jobs (mutant)
jobs_step_shared(js, j, in) == [k \in DOMAIN js |-> job_step(js[j], in)]

\* thread j steps: its job is its own, the other job is not touched
jobs_step(js, j, in) == [js EXCEPT ![j] = job_step(js[j], in)]

\* the job of a thread that meets `ins` with no other thread running
RECURSIVE job_alone(_)
job_alone(ins) ==
  IF ins = <<>> THEN job_idle
  ELSE job_step(job_alone(SubSeq(ins, 1, Len(ins) - 1)), ins[Len(ins)])

\* thread j meets `in`
JobStep(j, in) ==
  /\ jobs' = jobs_step(jobs, j, in)
  /\ inputs' = [inputs EXCEPT ![j] = Append(@, in)]
  /\ UNCHANGED <<source_vars, tinify_vars, result_vars>>

\* a thread calls from_buffer or from_url on the Client
JobCall ==
  \E j \in Threads, c \in JobCalls :
    /\ inputs[j] = <<>>
    /\ JobStep(j, c)

\* the answer to the POST /shrink of a thread arrives
JobShrinkAnswered ==
  \E j \in Threads, response \in JobAnswers :
    /\ jobs[j].pc = "shrink"
    /\ JobStep(j, [op |-> "answer", arg |-> Some(response)])

\* the answer to a GET of a thread arrives
JobGetAnswered ==
  \E j \in Threads, response \in JobGetAnswers :
    /\ jobs[j].pc \in {"fetch", "location"}
    /\ JobStep(j, [op |-> "answer", arg |-> Some(response)])

\* send() of a thread fails
JobSendFails ==
  \E j \in Threads :
    /\ jobs[j].pc \in {"fetch", "shrink", "location"}
    /\ JobStep(j, [op |-> "fail", arg |-> None])

----------------------------------------------------------------------------
(* tinify.rs: the legacy free functions over the process-wide OPTIONS *)

\* the keys callers pass to set_key
LegacyKeys == {"key one", "key two"}

KEY == "key"
PROVIDE_KEY == "Provide an API key with tinify::set_key(key)"
\* the message of unwrap() on None (its backquotes left out)
UNWRAP_NONE == "called Option::unwrap() on a None value"

\* HashMap::new()
HashMap_new == [k \in {} |-> ""]

\* insert that keeps the value of a key already present (mutant)
HashMap_insert_absent(map, k, v) ==
  [x \in DOMAIN map \cup {k} |-> IF x \in DOMAIN map THEN map[x] ELSE v]

\* HashMap::insert
HashMap_insert(map, k, v) ==
  [x \in DOMAIN map \cup {k} |-> IF x = k THEN v ELSE map[x]]

\* contains_key that finds every key (mutant)
HashMap_contains_any(map, k) == TRUE

\* HashMap::contains_key
HashMap_contains_key(map, k) == k \in DOMAIN map

\* get that yields an empty String (mutant)
HashMap_get_empty(map, k) == IF k \in DOMAIN map THEN Some("") ELSE None

\* HashMap::get
HashMap_get(map, k) == IF k \in DOMAIN map THEN Some(map[k]) ELSE None

\* Client::new(key) as get_client calls it
Client_new(k) == [key |-> k]

\* a thread that has not called get_client
caller_idle ==
  [pc |-> "idle", called |-> FALSE, seen |-> None, client |-> None,
   latest |-> None, message |-> ""]

\* tinify::set_key(new_key), under one lock
set_key ==
  \E t \in Threads, new_key \in LegacyKeys :
    /\ callers[t].pc = "idle"
    /\ OPTIONS' = HashMap_insert(OPTIONS, KEY, new_key)
    /\ set_keys' = set_keys \cup {new_key}
    /\ last_key' = Some(new_key)
    /\ UNCHANGED callers
    /\ UNCHANGED <<source_vars, jobs_vars, result_vars>>

\* tinify::get_client, first lock: contains_key, and the panic without a key
get_client_check ==
  \E t \in Threads :
    /\ callers[t].pc = "idle"
    /\ callers' =
         [callers EXCEPT ![t] =
            IF ~HashMap_contains_key(OPTIONS, KEY)
              THEN [@ EXCEPT !.pc = "panicked", !.called = TRUE,
                             !.seen = HashMap_get(OPTIONS, KEY),
                             !.client = None, !.latest = None,
                             !.message = PROVIDE_KEY]
              ELSE [@ EXCEPT !.pc = "checked", !.called = TRUE,
                             !.seen = HashMap_get(OPTIONS, KEY),
                             !.client = None, !.latest = None]]
    /\ UNCHANGED <<OPTIONS, set_keys, last_key>>
    /\ UNCHANGED <<source_vars, jobs_vars, result_vars>>

\* tinify::get_client, second lock: get("key").unwrap().clone(), Client::new
get_client_read ==
  \E t \in Threads :
    /\ callers[t].pc = "checked"
    /\ callers' =
         [callers EXCEPT ![t] =
            IF IsNone(HashMap_get(OPTIONS, KEY))
              THEN [@ EXCEPT !.pc = "panicked", !.message = UNWRAP_NONE]
              ELSE [@ EXCEPT !.pc = "idle",
                             !.client = Some(Client_new(Unwrap(HashMap_get(OPTIONS, KEY)))),
                             !.latest = last_key]]
    /\ UNCHANGED <<OPTIONS, set_keys, last_key>>
    /\ UNCHANGED <<source_vars, jobs_vars, result_vars>>

----------------------------------------------------------------------------
(* result.rs: the legacy Result over guarded bytes *)

MaxData == 3      \* longest guarded byte vector
ByteValues == {0, 1, 255}

RECURSIVE Vecs(_)
Vecs(n) ==
  IF n = 0 THEN {<<>>}
  ELSE Vecs(n - 1) \cup {Append(v, b) : v \in {w \in Vecs(n - 1) : Len(w) = n - 1},
                                         b \in ByteValues}

\* push that puts the byte in front (mutant)
push_front(buffer, byte) == <<byte>> \o buffer

\* Vec::push
push(buffer, byte) == Append(buffer, byte)

\* Result::new(data): the guard of some locked Vec<u8>
Result_new ==
  \E d \in Vecs(MaxData) :
    /\ copy = None
    /\ data' = d
    /\ taken' = d
    /\ new' = None
    /\ UNCHANGED copy
    /\ UNCHANGED <<source_vars, jobs_vars, tinify_vars>>

\* Result::to_buffer: Vec::with_capacity(self.data.len())
to_buffer_begin ==
  /\ copy = None
  /\ copy' = Some(<<>>)
  /\ taken' = data
  /\ new' = None
  /\ UNCHANGED data
  /\ UNCHANGED <<source_vars, jobs_vars, tinify_vars>>

\* Result::to_buffer: one turn of `for byte in self.data.iter()`
to_buffer_push ==
  /\ IsSome(copy)
  /\ Len(Unwrap(copy)) < Len(data)
  /\ copy' = Some(push(Unwrap(copy), data[Len(Unwrap(copy)) + 1]))
  /\ UNCHANGED <<data, taken, new>>
  /\ UNCHANGED <<source_vars, jobs_vars, tinify_vars>>

\* Result::to_buffer: the iterator is exhausted, `buffer` is returned
to_buffer_return ==
  /\ IsSome(copy)
  /\ Len(Unwrap(copy)) >= Len(data)
  /\ new' = copy
  /\ copy' = None
  /\ UNCHANGED <<data, taken>>
  /\ UNCHANGED <<source_vars, jobs_vars, tinify_vars>>

----------------------------------------------------------------------------
(* Upload *)

\* Client::from_buffer -> Source::from_buffer, up to the POST /shrink
from_buffer ==
  \E buffer \in Bodies :
    /\ Begin("from_buffer")
    /\ async' = async_from_buffer(async, buffer)
    /\ UNCHANGED aside
    /\ call = "none"
    /\ self' = Some(get_source)
    /\ held' = None
    /\ sent' = <<request_build(get_source, SHRINK, "POST", buffer)>>
    /\ pc' = "shrink"
    /\ result' = "pending"
    /\ opCalls' = 0
    /\ opPosts' = 0
    /\ rz' = None /\ cv' = None /\ returned' = None /\ file' = None
    /\ origin' = None
    /\ UNCHANGED key

\* send() fails and the failure is reported as a ClientError (mutant)
SendFails_client ==
  /\ pc \in {"fetch", "shrink", "location", "op"}
  /\ ReturnErr("ClientError")
  /\ answered' = Append(answered, None)
  /\ async' = async_SendFails(async)
  /\ UNCHANGED aside
  /\ UNCHANGED <<key, call, rz, cv, origin, loc, sent, handled, fetched, path, file,
                 returned, opCalls, opPosts>>

\* send() fails and the request is sent once more (mutant)
SendFails_again ==
  /\ pc \in {"fetch", "shrink", "location", "op"}
  /\ answered' = Append(answered, None)
  /\ async' = async_SendFails(async)
  /\ UNCHANGED aside
  /\ IF Len(sent) < 4
       THEN /\ sent' = Append(sent, sent[Len(sent)])
            /\ UNCHANGED <<pc, self, held, result>>
       ELSE /\ ReturnErr("ReqwestError")
            /\ UNCHANGED sent
  /\ UNCHANGED <<key, call, rz, cv, origin, loc, handled, fetched, path, file,
                 returned, opCalls, opPosts>>

\* send() fails: connection, timeout, or a string that is no URL
SendFails ==
  /\ pc \in {"fetch", "shrink", "location", "op"}
  /\ ReturnErr("ReqwestError")
  /\ answered' = Append(answered, None)
  /\ async' = async_SendFails(async)
  /\ UNCHANGED aside
  /\ UNCHANGED <<key, call, rz, cv, origin, loc, sent, handled, fetched, path, file,
                 returned, opCalls, opPosts>>

\* from_buffer / from_url after the POST /shrink is answered
RecvShrink ==
  \E response \in Responses :
    /\ pc = "shrink"
    /\ IsUrl(sent[Len(sent)].url)
    /\ answered' = Append(answered, Some(response.status))
    /\ async' = async_RecvShrink(async, response)
    /\ UNCHANGED aside
    /\ IF request_status(response.status) # "Ok"
         THEN /\ ReturnErr(request_status(response.status))
              /\ UNCHANGED <<loc, sent, handled, path>>
         ELSE get_source_from_response(Unwrap(self), response)
    /\ UNCHANGED <<key, call, rz, cv, origin, fetched, file, returned, opCalls, opPosts>>

\* get_source_from_response after its GET is answered
RecvLocation ==
  \E response \in GetResponses :
    /\ pc = "location"
    /\ IsUrl(sent[Len(sent)].url)
    /\ answered' = Append(answered, Some(response.status))
    /\ async' = async_RecvLocation(async, response)
    /\ UNCHANGED aside
    /\ fetched' = Some(response)
    /\ IF request_status(response.status) # "Ok"
         THEN ReturnErr(request_status(response.status))
         ELSE IF IsNone(response.body)
           THEN ReturnErr("ReqwestError")
           ELSE ReturnOk(redirect_source(Unwrap(self), Unwrap(response.body), loc))
    /\ UNCHANGED <<key, call, rz, cv, origin, loc, sent, handled, path, file, returned,
                   opCalls, opPosts>>

\* read_to_end that stops one byte short of the end (mutant)
read_to_end_short(bytes) == SubSeq(bytes, 1, Len(bytes) - 1)

\* BufReader::read_to_end: every byte of the file, in order
read_to_end(bytes) == bytes

\* Client::from_file -> Source::from_file: the file is opened and read, then
\* from_buffer.  `read` is what the file system does with the path.
from_file ==
  \E read \in {"open_fails", "read_fails", "ok"}, bytes \in Bodies :
    /\ Begin("from_file")
    /\ async' = async_from_file(async, read, bytes)
    /\ UNCHANGED aside
    /\ call = "none"
    /\ read # "ok" => bytes = <<>>
    /\ held' = None
    /\ opCalls' = 0
    /\ opPosts' = 0
    /\ CASE read = "open_fails" ->
              /\ pc' = "idle" /\ result' = "ReadError" /\ self' = None
              /\ sent' = <<>>
         [] read = "read_fails" ->
              /\ pc' = "idle" /\ result' = "IOError" /\ self' = None
              /\ sent' = <<>>
         [] read = "ok" ->
              /\ self' = Some(get_source)
              /\ sent' = <<request_build(get_source, SHRINK, "POST",
                                         read_to_end(bytes))>>
              /\ pc' = "shrink"
              /\ result' = "pending"
    /\ origin' = IF read = "ok" THEN Some(bytes) ELSE None
    /\ rz' = None /\ cv' = None /\ returned' = None /\ file' = None
    /\ UNCHANGED key

\* Client::from_url -> Source::from_url, up to the GET of the caller's url
from_url ==
  \E url \in {ImageUrl, EmptyStr} :
    /\ Begin("from_url")
    /\ async' = async_from_url(async, url)
    /\ UNCHANGED aside
    /\ call = "none"
    /\ self' = Some(get_source)
    /\ held' = None
    /\ sent' = <<request_build(get_source, url, "GET", None)>>
    /\ pc' = "fetch"
    /\ result' = "pending"
    /\ opCalls' = 0
    /\ opPosts' = 0
    /\ rz' = None /\ cv' = None /\ returned' = None /\ file' = None
    /\ origin' = None
    /\ UNCHANGED key

\* from_url after its GET is answered: the bytes are posted to /shrink
RecvFetch ==
  \E response \in GetResponses :
    /\ pc = "fetch"
    /\ IsUrl(sent[Len(sent)].url)
    /\ answered' = Append(answered, Some(response.status))
    /\ async' = async_RecvFetch(async, response)
    /\ UNCHANGED aside
    /\ IF request_status(response.status) # "Ok"
         THEN /\ ReturnErr(request_status(response.status))
              /\ UNCHANGED <<sent, origin>>
         ELSE \* get_request?.bytes()?
              /\ origin' = response.body
              /\ IF IsNone(response.body)
                   THEN /\ ReturnErr("ReqwestError")
                        /\ UNCHANGED sent
                   ELSE /\ sent' = Append(sent, request_build(Unwrap(self), SHRINK,
                                             "POST", Unwrap(response.body)))
                        /\ pc' = "shrink"
                        /\ UNCHANGED <<self, held, result>>
    /\ UNCHANGED <<key, call, rz, cv, loc, handled, fetched, path, file,
                   returned, opCalls, opPosts>>

----------------------------------------------------------------------------
(* Operations *)

\* The POST an operation builds, outside Source::request
operation_request(s, json_string) ==
  Request("POST", Unwrap(s.url), Some(<<"api", s.key>>), Some(APPLICATION_JSON),
          None, Some(json_string))

\* resize / convert from self.url.as_ref().unwrap() to send()
send_operation(s, json_string) ==
  IF IsNone(s.url)
    THEN /\ Panic
         /\ sent' = <<>>
         /\ UNCHANGED opPosts
    ELSE /\ sent' = <<operation_request(s, json_string)>>
         /\ opPosts' = opPosts + 1
         /\ pc' = "op"
         /\ self' = Some(s)
         /\ held' = None
         /\ result' = "pending"

\* Source::resize, up to its POST
resize ==
  \E r \in Resizes :
    /\ Begin("resize")
    /\ IsSome(held)
    /\ async' = async_resize(async, r)
    /\ UNCHANGED aside
    /\ opCalls < MaxOps
    /\ opCalls' = opCalls + 1
    /\ rz' = Some(r)
    /\ send_operation(Unwrap(held), resize_bodies[r])
    /\ cv' = None /\ returned' = None /\ file' = None
    /\ origin' = None
    /\ UNCHANGED key

\* Source::convert, up to its POST, its arguments drawn from Args
convert_of(Args) ==
  \E c \in Args :
    /\ Begin("convert")
    /\ IsSome(held)
    /\ async' = async_convert(async, c)
    /\ UNCHANGED aside
    /\ opCalls < MaxOps
    /\ opCalls' = opCalls + 1
    /\ cv' = Some(c)
    /\ LET count == filter_some(c.types) IN
         IF count = <<>>
           THEN \* count.first().unwrap()
                /\ Panic
                /\ sent' = <<>>
                /\ UNCHANGED opPosts
           ELSE send_operation(Unwrap(held), convert_bodies[c])
    /\ rz' = None /\ returned' = None /\ file' = None
    /\ origin' = None
    /\ UNCHANGED key

\* Source::convert, up to its POST
convert == convert_of(ConvertArgs)

\* Source::convert with any of the convert::Type constants
convert_types == convert_of(TypeArgs)

\* Source::convert with any string as the background colour
convert_colors == convert_of(ColorArgs)

\* the status test of an operation without its arm for 400 (mutant)
operation_status_any(status) == "Ok"

\* resize / convert: `if response.status() == StatusCode::BAD_REQUEST`
operation_status(status) ==
  IF status = BAD_REQUEST THEN "ClientError" ELSE "Ok"

\* resize / convert after the POST is answered
RecvOp ==
  \E response \in Responses :
    /\ pc = "op"
    /\ IsUrl(sent[Len(sent)].url)
    /\ answered' = Append(answered, Some(response.status))
    /\ async' = async_RecvOp(async, response)
    /\ UNCHANGED aside
    /\ IF operation_status(response.status) # "Ok"
         THEN /\ ReturnErr(operation_status(response.status))
              /\ UNCHANGED <<loc, sent, handled, path>>
         ELSE get_source_from_response(Unwrap(self), response)
    /\ UNCHANGED <<key, call, rz, cv, origin, fetched, file, returned, opCalls, opPosts>>

----------------------------------------------------------------------------
(* Materialisation *)

\* Source::to_buffer, the value it returns
to_buffer_value(s) == Unwrap(s.buffer)

\* a write that stops one byte short (mutant)
written_short(buffer) == SubSeq(buffer, 1, Len(buffer) - 1)

\* what write_all + flush leave in the created file when both succeed
written(buffer) == buffer

\* Source::to_file(&self, path).  `before` is what the path holds when the
\* call is made and `io` what the file system does.
to_file ==
  \E before \in Option(Bodies), io \in {"create_fails", "write_fails", "ok"} :
    /\ Begin("to_file")
    /\ IsSome(held)
    /\ sent' = <<>>
    /\ LET s == Unwrap(held) IN
         CASE io = "create_fails" ->
                /\ file' = before
                /\ async' = async_to_file(async, before, io, 0)
                /\ UNCHANGED aside
                /\ result' = "WriteError"
                /\ UNCHANGED <<pc, held>>
           [] io # "create_fails" /\ IsNone(s.buffer) ->
                \* File::create has emptied the file; buffer.unwrap()
                /\ file' = Some(<<>>)
                /\ async' = async_to_file(async, before, io, 0)
                /\ UNCHANGED aside
                /\ pc' = "panicked"
                /\ result' = "panic"
                /\ held' = None
           [] io = "write_fails" /\ IsSome(s.buffer) ->
                \* only a proper prefix of the bytes reached the file
                /\ \E n \in 0..(Len(Unwrap(s.buffer)) - 1) :
                     /\ file' = Some(SubSeq(Unwrap(s.buffer), 1, n))
                     /\ async' = async_to_file(async, before, io, n)
                     /\ UNCHANGED aside
                /\ result' = "IOError"
                /\ UNCHANGED <<pc, held>>
           [] io = "ok" /\ IsSome(s.buffer) ->
                /\ file' = Some(written(Unwrap(s.buffer)))
                /\ async' = async_to_file(async, before, io, 0)
                /\ UNCHANGED aside
                /\ result' = "Ok"
                /\ UNCHANGED <<pc, held>>
    /\ rz' = None /\ cv' = None /\ returned' = None
    /\ origin' = None
  /\ UNCHANGED <<key, self, opCalls, opPosts>>

\* Source::to_buffer(&self)
to_buffer ==
  /\ Begin("to_buffer")
  /\ IsSome(held)
  /\ async' = async_to_buffer(async)
  /\ UNCHANGED aside
  /\ sent' = <<>>
  /\ IF IsNone(Unwrap(held).buffer)
       THEN /\ pc' = "panicked"
            /\ result' = "panic"
            /\ held' = None
            /\ returned' = None
       ELSE /\ returned' = Some(to_buffer_value(Unwrap(held)))
            /\ result' = "Ok"
            /\ UNCHANGED <<pc, held>>
  /\ rz' = None /\ cv' = None /\ file' = None
  /\ origin' = None
  /\ UNCHANGED <<key, self, opCalls, opPosts>>

----------------------------------------------------------------------------

Init ==
  /\ key \in Keys
  /\ pc = "idle"
  /\ self = None
  /\ held = None
  /\ call = "none"
  /\ rz = None
  /\ cv = None
  /\ loc = EmptyStr
  /\ sent = <<>>
  /\ answered = <<>>
  /\ handled = None
  /\ fetched = None
  /\ path = "none"
  /\ result = "none"
  /\ file = None
  /\ returned = None
  /\ opCalls = 0
  /\ opPosts = 0
  /\ origin = None
  /\ async = async_idle
  /\ jobs = [j \in Threads |-> job_idle]
  /\ inputs = [j \in Threads |-> <<>>]
  /\ OPTIONS = HashMap_new
  /\ callers = [t \in Threads |-> caller_idle]
  /\ set_keys = {}
  /\ last_key = None
  /\ data = <<>>
  /\ copy = None
  /\ taken = <<>>
  /\ new = None

\* Jobs run one after another (call = "none" in from_*): the caller lets go of
\* the Source or the error of the job, and of the record of its last call.
end_job ==
  /\ pc = "idle"
  /\ call # "none"
  /\ self' = None
  /\ held' = None
  /\ call' = "none"
  /\ rz' = None
  /\ cv' = None
  /\ loc' = EmptyStr
  /\ sent' = <<>>
  /\ answered' = <<>>
  /\ handled' = None
  /\ fetched' = None
  /\ path' = "none"
  /\ result' = "none"
  /\ file' = None
  /\ returned' = None
  /\ opCalls' = 0
  /\ opPosts' = 0
  /\ origin' = None
  /\ async' = async_idle
  /\ UNCHANGED aside
  /\ UNCHANGED <<key, pc>>

Next ==
  \/ from_file
  \/ from_buffer
  \/ from_url
  \/ RecvFetch
  \/ RecvShrink
  \/ RecvLocation
  \/ SendFails
  \/ resize
  \/ convert
  \/ RecvOp
  \/ to_file
  \/ to_buffer
  \/ end_job

Spec == Init /\ [][Next]_vars

\* Uploads of a buffer, then convert with every choice of convert::Type
NextConvert ==
  \/ from_buffer
  \/ RecvShrink
  \/ RecvLocation
  \/ SendFails
  \/ convert_types

SpecConvert == Init /\ [][NextConvert]_vars

\* Uploads of a buffer, then convert with any background colour string
NextColors ==
  \/ from_buffer
  \/ RecvShrink
  \/ RecvLocation
  \/ SendFails
  \/ convert_colors

SpecColors == Init /\ [][NextColors]_vars

\* Two threads, one Client, one job each, their requests interleaved
NextJobs ==
  \/ JobCall
  \/ JobShrinkAnswered
  \/ JobGetAnswered
  \/ JobSendFails

SpecJobs == Init /\ [][NextJobs]_vars

\* Threads calling the legacy free functions in any order
NextTinify ==
  \/ set_key
  \/ get_client_check
  \/ get_client_read

SpecTinify == Init /\ [][NextTinify]_vars

\* The legacy Result: a guard is wrapped, to_buffer runs turn by turn
NextResult ==
  \/ Result_new
  \/ to_buffer_begin
  \/ to_buffer_push
  \/ to_buffer_return

SpecResult == Init /\ [][NextResult]_vars

----------------------------------------------------------------------------
(* Properties *)

Uploads == {"from_file", "from_buffer", "from_url"}
Operations == {"resize", "convert"}
Materialisations == {"to_file", "to_buffer"}

\* the POST of the call on record (a call sends at most one) and what follows it
HasPost == \E k \in 1..Len(sent) : sent[k].method = "POST"
PostAt == CHOOSE k \in 1..Len(sent) : sent[k].method = "POST"
FollowUps == SubSeq(sent, PostAt + 1, Len(sent))
GetTo(url) == Request("GET", url, None, None, None, None)
Returned == pc = "idle" /\ call # "none"

\* C1: when the response given to get_source_from_response carries a Location
\* header with text L, the requests after the POST are exactly one GET to L, and
\* a Source returned Ok has the body of that GET as buffer and Some(L) as url.
C1_RedirectRefetch ==
  (IsSome(handled) /\ IsSome(Unwrap(handled).location)
     /\ Unwrap(Unwrap(handled).location).valid) =>
    LET L == Unwrap(Unwrap(handled).location).str IN
      /\ FollowUps = <<GetTo(L)>>
      /\ (Returned /\ result = "Ok") =>
           /\ IsSome(fetched)
           /\ Unwrap(held).buffer = Unwrap(fetched).body
           /\ Unwrap(held).url = Some(L)

\* C1 witness: an operation returned Ok through the redirect, and the body of
\* the GET differs from the body of the response that carried the Location.
C1_Witness ==
  /\ Returned /\ result = "Ok" /\ call \in Operations /\ path = "redirect"
  /\ Unwrap(handled).body # Unwrap(fetched).body
  /\ Unwrap(held).buffer = Unwrap(fetched).body
  /\ Unwrap(held).url = Some(ResultUrl)

\* C2: when the response given to get_source_from_response carries no Location
\* header, nothing is sent after the POST, a Source returned Ok has that
\* response's body as buffer and url None; every handled response takes exactly
\* one branch, the redirect one exactly when it carries a Location header.
C2_DirectBody ==
  /\ (IsSome(handled) /\ IsNone(Unwrap(handled).location)) =>
       /\ path = "direct"
       /\ FollowUps = <<>>
       /\ fetched = None
       /\ (Returned /\ result = "Ok") =>
            /\ Unwrap(held).buffer = Unwrap(handled).body
            /\ Unwrap(held).url = None
  /\ (IsSome(handled) /\ IsSome(Unwrap(handled).location)) => path = "redirect"
  /\ IsNone(handled) => path = "none"
  /\ path = "redirect" => (FollowUps # <<>> \/ result = "panic")

\* C2 witness: an operation on a Source with a stored url returned Ok through
\* the direct branch.
C2_Witness ==
  /\ Returned /\ result = "Ok" /\ call \in Operations /\ path = "direct"
  /\ IsSome(Unwrap(held).buffer)
  /\ sent[1].url = ResultUrl

\* the status the POST /shrink of the upload on record was answered with
ShrinkAnswered(status) ==
  /\ call \in Uploads
  /\ HasPost
  /\ Len(answered) >= PostAt
  /\ answered[PostAt] = Some(status)

\* C3: an upload whose POST /shrink is answered 401 returns ClientError; no
\* Source exists afterwards, no GET follows and no response body is stored.
C3_Unauthorized ==
  ShrinkAnswered(UNAUTHORIZED) =>
    /\ pc = "idle"
    /\ result = "ClientError"
    /\ held = None
    /\ self = None
    /\ handled = None
    /\ FollowUps = <<>>

\* C3 witness: from_url got its image and the POST /shrink was answered 401.
C3_Witness ==
  /\ call = "from_url" /\ ShrinkAnswered(UNAUTHORIZED) /\ result = "ClientError"

\* the requests of the call on record that went through Source::request
ThroughRequest(k) == sent[k].ctype = None

\* C4: for every answered request that went through Source::request, whatever
\* its method, url and body: 401 and 415 end the call with ClientError, 503
\* with ServerError, and after any other status the method goes on (neither
\* error is returned for it).
C4_StatusMapping ==
  \A k \in 1..Len(answered) :
    (ThroughRequest(k) /\ IsSome(answered[k])) =>
      LET status == Unwrap(answered[k]) IN
        /\ status \in {UNAUTHORIZED, UNSUPPORTED_MEDIA_TYPE} =>
             (k = Len(sent) /\ pc = "idle" /\ result = "ClientError")
        /\ status = SERVICE_UNAVAILABLE =>
             (k = Len(sent) /\ pc = "idle" /\ result = "ServerError")
        /\ status \notin {UNAUTHORIZED, UNSUPPORTED_MEDIA_TYPE, SERVICE_UNAVAILABLE} =>
             (k = Len(answered) => result \notin {"ClientError", "ServerError"})

\* C4 witness: the GET of a Location target was answered 415 after an
\* operation's POST.
C4_Witness ==
  /\ call \in Operations /\ Len(answered) = 2
  /\ sent[2].method = "GET"
  /\ answered[2] = Some(UNSUPPORTED_MEDIA_TYPE)
  /\ result = "ClientError"

\* C5 as claimed: an upload returns Ok only when POST /shrink was answered 201.
C5_Claim ==
  (Returned /\ call \in Uploads /\ result = "Ok") => ShrinkAnswered(201)

\* C6 as claimed: resize and convert send no request.
C6_Claim ==
  call \in Operations => sent = <<>>

\* C7 as claimed: to_file / to_buffer send the operations requested on the job
\* in exactly one POST, and send nothing when none was requested.
C7_Claim ==
  (Returned /\ call \in Materialisations) =>
    /\ opCalls >= 1 => (opPosts = 1 /\ HasPost)
    /\ opCalls = 0 => sent = <<>>

\* C8: after a successful to_file the path holds exactly the bytes to_buffer
\* returns for the same Source.
C8_FileEqualsBuffer ==
  (Returned /\ call = "to_file" /\ result = "Ok") =>
    file = Some(to_buffer_value(Unwrap(held)))

\* C8 witness: a successful to_file of a non-empty buffer.
C8_Witness ==
  /\ Returned /\ call = "to_file" /\ result = "Ok"
  /\ Len(Unwrap(Unwrap(held).buffer)) > 0

\* C9 as claimed: resize with method scale and both dimensions set sends
\* nothing and returns ClientError.
C9_Claim ==
  (call = "resize" /\ Unwrap(rz).method = "Scale"
     /\ IsSome(Unwrap(rz).width) /\ IsSome(Unwrap(rz).height)) =>
    /\ sent = <<>>
    /\ pc = "idle"
    /\ result = "ClientError"

\* `"key":n` stands in json as a complete member
HasMember(json, field_key, n) ==
  \/ Contains(json, field_key \o ToDec(n) \o <<",">>)
  \/ Contains(json, field_key \o ToDec(n) \o <<"}">>)

\* C10: the body sent for a resize never contains null; a dimension that is
\* None has no member in it, a dimension Some(n) has the member with value n.
C10_NoNullDimension ==
  (call = "resize" /\ sent # <<>>) =>
    LET json == Unwrap(sent[1].json)
        r == Unwrap(rz)
    IN  /\ ~Contains(json, NULL)
        /\ IF IsNone(r.width) THEN ~Contains(json, WIDTH_KEY)
           ELSE HasMember(json, WIDTH_KEY, Unwrap(r.width))
        /\ IF IsNone(r.height) THEN ~Contains(json, HEIGHT_KEY)
           ELSE HasMember(json, HEIGHT_KEY, Unwrap(r.height))

\* C10 witness: a resize with neither dimension was sent.
C10_Witness ==
  /\ call = "resize" /\ sent # <<>>
  /\ IsNone(Unwrap(rz).width) /\ IsNone(Unwrap(rz).height)

----------------------------------------------------------------------------
(* The convert body as the server reads it *)

\* the closing quote of the JSON string that opens at i
string_end(json, i) ==
  CHOOSE j \in (i + 1)..Len(json) :
    /\ json[j] = "\"" /\ json[j - 1] # "\\"
    /\ \A k \in (i + 1)..(j - 1) : ~(json[k] = "\"" /\ json[k - 1] # "\\")

\* the text of the JSON string that opens at i
decode_string(json, i) == SubSeq(json, i + 1, string_end(json, i) - 1)

\* the strings of a JSON array, read from i (behind its bracket) to its end
RECURSIVE decode_array(_, _)
decode_array(json, i) ==
  IF i > Len(json) \/ json[i] = "]" THEN <<>>
  ELSE IF json[i] = "\"" 
    THEN <<decode_string(json, i)>> \o decode_array(json, string_end(json, i) + 1)
    ELSE decode_array(json, i + 1)

\* where the value of the member "type" starts
type_value(json) ==
  (CHOOSE i \in Matches(json, TYPE_QUOTED \o <<":">>) : TRUE) + Len(TYPE_QUOTED) + 1

\* the types a reader of the body finds under convert.type
decode_type(json) ==
  LET p == type_value(json)
  IN  IF json[p] = "[" THEN decode_array(json, p + 1)
      ELSE IF json[p] = "\"" THEN <<decode_string(json, p)>>
      ELSE <<>>

\* C11: the body of a convert request holds the member "type" once, under
\* "convert"; one supplied type stands there as a bare JSON string, two or
\* three as a JSON array in the order given, and reading the value back gives
\* the supplied types, as many and in the same order.
C11_TypeCardinality ==
  (call = "convert" /\ sent # <<>>) =>
    LET json == Unwrap(sent[1].json)
        count == filter_some(Unwrap(cv).types)
    IN  /\ Cardinality(Matches(json, TYPE_QUOTED \o <<":">>)) = 1
        /\ Contains(json, CONVERT_KEY \o <<"{">> \o TYPE_QUOTED \o <<":">>)
        /\ Len(count) = 1 => json[type_value(json)] = "\""
        /\ Len(count) >= 2 => json[type_value(json)] = "["
        /\ decode_type(json) = count
        /\ Len(decode_type(json)) = Len(count)

\* C11 witness: a convert to two different types, the second slot left empty,
\* was sent.
C11_Witness ==
  /\ call = "convert" /\ sent # <<>>
  /\ Unwrap(cv).types = <<Some(WEBP), None, Some(PNG)>>

\* C12: an operation whose POST is answered 400 returns ClientError; the
\* answer is not read, no Source comes back, nothing is fetched, and no later
\* to_buffer or to_file of the job has a Source to take a buffer from.
C12_BadRequest ==
  /\ (call \in Operations /\ answered # <<>> /\ answered[1] = Some(BAD_REQUEST)) =>
        /\ Returned
        /\ result = "ClientError"
        /\ held = None /\ self = None
        /\ handled = None /\ fetched = None
        /\ Len(sent) = 1
  /\ (call \in Materialisations) => IsSome(held)

\* C12 witness: a convert whose POST was answered 400 has returned.
C12_Witness ==
  /\ Returned /\ call = "convert"
  /\ answered = <<Some(BAD_REQUEST)>>

\* C13 as claimed: an operation whose POST is answered with a 4xx status
\* returns a client error, one answered 503 returns a server error, and in
\* neither case does a Source come back (calls that end in a transport error
\* while reading the answer are left aside).
C13_Claim ==
  (call \in Operations /\ answered # <<>> /\ IsSome(answered[1])
     /\ Returned /\ result # "ReqwestError") =>
    LET status == Unwrap(answered[1])
    IN  /\ status \in 400..499 =>
              Returned /\ result = "ClientError" /\ held = None
        /\ status = SERVICE_UNAVAILABLE =>
              Returned /\ result = "ServerError" /\ held = None

\* C14 as claimed: no call of the public API panics, whatever its arguments
\* and whatever the server answers (stated here for answers whose Location
\* header, when there is one, is text).
C14_Claim ==
  ~(IsSome(handled) /\ IsSome(Unwrap(handled).location)
      /\ ~Unwrap(Unwrap(handled).location).valid) =>
    pc # "panicked" /\ result # "panic"

\* C15 as claimed: an operation invoked on a Source that an upload or an
\* operation returned finds a stored url and sends its POST there (a convert
\* needs a type to have a body to send).
C15_Claim ==
  (call = "resize" \/ (call = "convert" /\ filter_some(Unwrap(cv).types) # <<>>)) =>
    /\ sent # <<>>
    /\ sent[1].method = "POST"

\* the requests a call may send, in order
plan(name) ==
  CASE name \in {"from_buffer", "from_file"} -> <<"POST", "GET">>
    [] name = "from_url" -> <<"GET", "POST", "GET">>
    [] name \in Operations -> <<"POST", "GET">>
    [] OTHER -> <<>>

\* the k-th request of the call failed: no answer, or a status its sender
\* turns into an error
failure(k) ==
  IF IsNone(answered[k]) THEN "ReqwestError"
  ELSE IF ThroughRequest(k) THEN request_status(Unwrap(answered[k]))
  ELSE operation_status(Unwrap(answered[k]))

\* C16: no request is retried.  The requests of one call are a prefix of
\* POST, GET (uploads of bytes, operations) or of GET, POST, GET (from_url,
\* which always sends its first GET); each is sent only after the one before
\* it was answered; and a request that fails is the call's last one, the call
\* returning that error.
C16_NoRetry ==
  /\ Len(sent) <= Len(plan(call))
  /\ \A k \in 1..Len(sent) : sent[k].method = plan(call)[k]
  /\ call = "from_url" => Len(sent) >= 1
  /\ Len(answered) \in {Len(sent) - 1, Len(sent)} \cap Nat
  /\ \A k \in 1..Len(answered) :
        failure(k) # "Ok" =>
          /\ k = Len(sent)
          /\ Returned
          /\ result = failure(k)

\* C16 witness: a from_url whose third request, the follow-up GET, was
\* answered 503 has returned.
C16_Witness ==
  /\ Returned /\ call = "from_url"
  /\ Len(sent) = 3
  /\ answered[3] = Some(SERVICE_UNAVAILABLE)

\* POST /shrink with the client's key and `bytes` as its body
ShrinkOf(bytes) ==
  Request("POST", API_ENDPOINT \o SHRINK, Some(<<"api", Some(key)>>), None,
          Some(bytes), None)

\* C17: from_url first sends a GET, without credentials or body, to the url it
\* was given.  When that GET fails to be sent or is answered 401, 415 or 503,
\* nothing else is sent and the call returns that error.  Otherwise, once the
\* answer's bytes are read, the second request is POST /shrink whose body is
\* exactly those bytes.
C17_FetchThenShrink ==
  call = "from_url" =>
    /\ sent # <<>>
    /\ sent[1] = GetTo(sent[1].url)
    /\ (answered # <<>> /\ failure(1) # "Ok") =>
          /\ Len(sent) = 1
          /\ Returned /\ result = failure(1) /\ held = None
          /\ origin = None
    /\ (answered # <<>> /\ failure(1) = "Ok" /\ IsSome(origin)) =>
          Len(sent) >= 2
    /\ Len(sent) >= 2 =>
          /\ failure(1) = "Ok"
          /\ IsSome(origin)
          /\ sent[2] = ShrinkOf(Unwrap(origin))

\* C17 witness: from_url has read a non-empty answer and sent its POST.
C17_Witness ==
  /\ call = "from_url" /\ Len(sent) = 2
  /\ origin = Some(Body(1))

\* C18: from_file on a path that cannot be opened or read returns ReadError or
\* IOError, sends nothing and returns no Source; on a readable path its first
\* request is the POST /shrink that from_buffer sends for the file's bytes, and
\* what follows is what follows in from_buffer.
C18_FromFile ==
  call = "from_file" =>
    /\ IsNone(origin) =>
          /\ sent = <<>> /\ answered = <<>>
          /\ Returned /\ result \in {"ReadError", "IOError"}
          /\ held = None
    /\ IsSome(origin) =>
          /\ sent # <<>>
          /\ sent[1] = ShrinkOf(Unwrap(origin))
          /\ result \notin {"ReadError", "IOError"}
          /\ path = "redirect" /\ IsSome(held) =>
                Unwrap(held).buffer = Some(Unwrap(Unwrap(fetched).body))
          /\ path = "direct" /\ IsSome(held) =>
                Unwrap(held).buffer = Some(Unwrap(Unwrap(handled).body))

\* C18 witness: from_file of a readable, non-empty file has returned a Source.
C18_Witness ==
  /\ Returned /\ call = "from_file" /\ result = "Ok"
  /\ origin = Some(Body(1))

\* C19: every Source the caller gets inside Ok, from an upload or an operation,
\* has buffer = Some; a Source with buffer = None exists only inside an upload
\* that has not returned; and to_buffer and to_file, which unwrap the buffer,
\* never find it empty.
C19_BufferPresent ==
  /\ IsSome(held) => IsSome(Unwrap(held).buffer)
  /\ (Returned /\ result = "Ok" /\ call \in Uploads \cup Operations) => IsSome(held)
  /\ (IsSome(self) /\ IsNone(Unwrap(self).buffer)) =>
        call \in Uploads /\ pc \in {"fetch", "shrink", "location"}
  /\ call \in Materialisations =>
        /\ pc # "panicked" /\ result # "panic"
        /\ IsSome(held)

\* C19 witness: to_buffer on the Source an operation returned has given its
\* bytes.
C19_Witness ==
  /\ Returned /\ call = "to_buffer" /\ result = "Ok"
  /\ opCalls >= 1
  /\ IsSome(returned)

\* C20: the blocking Source and the async Source, given the same calls, the
\* same results of the file system and the same answers, are at every moment
\* at the same point of the same call, have sent the same requests in the same
\* order, and hold the same Source (buffer, url, key), result, file and
\* returned bytes.
C20_SameMachine ==
  /\ async.pc = pc
  /\ async.sent = sent
  /\ async.self = self
  /\ async.held = held
  /\ async.result = result
  /\ async.loc = loc
  /\ async.file = file
  /\ async.returned = returned

\* C20 witness: both have returned Ok from a convert whose answer carried a
\* Location, after two requests each.
C20_Witness ==
  /\ Returned /\ call = "convert" /\ result = "Ok" /\ path = "redirect"
  /\ async.pc = "idle" /\ async.result = "Ok"
  /\ Len(async.sent) = 2
  /\ IsSome(async.held)

C22_TransportError ==
  \A k \in 1..Len(answered) :
    IsNone(answered[k]) =>
      /\ Returned
      /\ result = "ReqwestError"
      /\ held = None /\ self = None

\* C22 witness: from_url of a string that is no URL has returned ReqwestError.
C22_Witness ==
  /\ Returned /\ call = "from_url"
  /\ sent[1].url = EmptyStr
  /\ answered = <<None>>
  /\ result = "ReqwestError"

\* C23: a get_client call that finds no key in OPTIONS panics, and every
\* panic of get_client carries the message "Provide an API key with
\* tinify::set_key(key)"; a call that finds a key does not panic.
C23_NoKeyPanics ==
  \A t \in Threads :
    /\ (callers[t].called /\ IsNone(callers[t].seen)) <=> callers[t].pc = "panicked"
    /\ callers[t].pc = "panicked" => callers[t].message = PROVIDE_KEY

\* C23 witness: the first thread has panicked in get_client, and the second,
\* calling after a set_key, has its Client.
C23_Witness ==
  /\ callers[1].pc = "panicked"
  /\ callers[1].message = PROVIDE_KEY
  /\ IsSome(callers[2].client)

\* C24: the map holds at most one entry, the one of "key", whose value is the
\* argument of the most recent set_key; and the Client that get_client returns
\* has the key that was the most recent set_key argument when it returned.
C24_LastWriterWins ==
  /\ Cardinality(DOMAIN OPTIONS) <= 1
  /\ HashMap_get(OPTIONS, KEY) = last_key
  /\ \A t \in Threads :
        IsSome(callers[t].client) =>
          Some(Unwrap(callers[t].client).key) = callers[t].latest

\* C24 witness: after set_key calls with both keys, a thread holds a Client
\* with the key set last.
C24_Witness ==
  /\ set_keys = LegacyKeys
  /\ IsSome(callers[1].client)
  /\ Some(Unwrap(callers[1].client).key) = last_key

\* C25: the vector to_buffer returns equals the guarded data, element by
\* element and in order, and the data is what it was when to_buffer began,
\* during the loop and after it.
C25_ToBufferCopies ==
  /\ data = taken
  /\ IsSome(new) =>
        /\ Len(Unwrap(new)) = Len(data)
        /\ \A i \in 1..Len(data) : Unwrap(new)[i] = data[i]

\* C25 witness: to_buffer has returned a copy of three different bytes.
C25_Witness ==
  /\ IsSome(new)
  /\ Len(data) = 3
  /\ Cardinality({data[i] : i \in 1..3}) = 3

\* C30: in every interleaving of set_key and get_client calls, a get_client
\* that has panicked carries the "Provide an API key" message, and a Client
\* that a get_client returned has, as its key, an argument of some set_key
\* call made before.
C30_CheckThenRead ==
  \A t \in Threads :
    /\ callers[t].pc = "panicked" => callers[t].message = PROVIDE_KEY
    /\ IsSome(callers[t].client) => Unwrap(callers[t].client).key \in set_keys

\* C30 witness: between the locked check and the locked read of a get_client
\* another thread has set a different key, and the Client has the newer one.
C30_Witness ==
  \E t \in Threads :
    /\ IsSome(callers[t].client)
    /\ IsSome(callers[t].seen)
    /\ Unwrap(callers[t].client).key # Unwrap(callers[t].seen)

\* C26: every POST of a job, the upload to /shrink and the POST of an
\* operation to the stored url, carries basic auth with username "api" and the
\* key of the Source; no GET, of the caller's url or of a Location, carries
\* any credentials.
C26_KeyOnlyOnPost ==
  \A k \in 1..Len(sent) :
    /\ sent[k].method \in {"POST", "GET"}
    /\ sent[k].method = "POST" =>
          /\ sent[k].auth = Some(<<"api", Some(key)>>)
          /\ (k = Len(sent) /\ IsSome(self)) =>
                sent[k].auth = Some(<<"api", Unwrap(self).key>>)
    /\ sent[k].method = "GET" => sent[k].auth = None

\* C26 witness: an operation has sent its POST to the stored url and then the
\* GET of the Location it was answered with.
C26_Witness ==
  /\ call \in {"resize", "convert"}
  /\ Len(sent) = 2
  /\ sent[1].method = "POST"
  /\ sent[1].auth = Some(<<"api", Some(key)>>)
  /\ sent[2].method = "GET"
  /\ sent[2].auth = None

----------------------------------------------------------------------------
(* A reader of JSON text: strings, numbers, arrays and objects *)

\* how many backslashes stand immediately before position i
backslashes_before(json, i) ==
  CHOOSE n \in 0..(i - 1) :
    /\ \A k \in 1..n : json[i - k] = "\\"
    /\ (n = i - 1 \/ json[i - n - 1] # "\\")

\* the quotes that open or close a string: those not escaped
string_quotes(json) ==
  {i \in 1..Len(json) : json[i] = "\"" /\ backslashes_before(json, i) % 2 = 0}

\* position i lies behind the opening quote of a string, up to its closing
\* quote
in_string(json, i) ==
  Cardinality({q \in string_quotes(json) : q < i}) % 2 = 1

\* a backslash that starts an escape, and the escapes a string may hold
escape_lead(json, i) ==
  json[i] = "\\" /\ backslashes_before(json, i) % 2 = 0
escapes_valid(json) ==
  \A i \in 1..Len(json) :
    escape_lead(json, i) =>
      /\ in_string(json, i)
      /\ i < Len(json)
      /\ json[i + 1] \in {"\"", "\\", "/", "b", "f", "n", "r", "t", "u"}

JsonDigits == {"0", "1", "2", "3", "4", "5", "6", "7", "8", "9"}

\* the positions that start a token: an opening quote, the first digit of a
\* number, and every other character outside the strings
token_starts(json) ==
  {i \in 1..Len(json) :
     /\ ~in_string(json, i)
     /\ (json[i] \in JsonDigits /\ i > 1) => json[i - 1] \notin JsonDigits}

\* the text as tokens: "S" for a string, "N" for a number, else the character
tokens(json) ==
  LET starts == token_starts(json)
      nth(k) == CHOOSE i \in starts : Cardinality({p \in starts : p <= i}) = k
  IN  [k \in 1..Cardinality(starts) |->
         IF json[nth(k)] = "\"" THEN "S"
         ELSE IF json[nth(k)] \in JsonDigits THEN "N"
         ELSE json[nth(k)]]

token_at(t, i) == IF i \in 1..Len(t) THEN t[i] ELSE "end"

\* the position behind the value, the members or the elements that start at
\* i, and 0 when there is none
RECURSIVE json_value(_, _)
RECURSIVE json_members(_, _)
RECURSIVE json_elements(_, _)
json_value(t, i) ==
  CASE token_at(t, i) \in {"S", "N"} -> i + 1
    [] token_at(t, i) = "{" ->
         IF token_at(t, i + 1) = "}" THEN i + 2 ELSE json_members(t, i + 1)
    [] token_at(t, i) = "[" ->
         IF token_at(t, i + 1) = "]" THEN i + 2 ELSE json_elements(t, i + 1)
    [] OTHER -> 0
json_members(t, i) ==
  IF token_at(t, i) = "S" /\ token_at(t, i + 1) = ":"
    THEN LET j == json_value(t, i + 2)
         IN  IF j = 0 THEN 0
             ELSE IF token_at(t, j) = "," THEN json_members(t, j + 1)
             ELSE IF token_at(t, j) = "}" THEN j + 1
             ELSE 0
    ELSE 0
json_elements(t, i) ==
  LET j == json_value(t, i)
  IN  IF j = 0 THEN 0
      ELSE IF token_at(t, j) = "," THEN json_elements(t, j + 1)
      ELSE IF token_at(t, j) = "]" THEN j + 1
      ELSE 0

\* the text is one JSON value
well_formed(json) ==
  /\ Cardinality(string_quotes(json)) % 2 = 0
  /\ escapes_valid(json)
  /\ json_value(tokens(json), 1) = Len(tokens(json)) + 1

\* the characters a JSON string stands for: its text without the backslashes
\* that start an escape
unescape(json, from, to) ==
  LET kept == {i \in from..to : ~escape_lead(json, i)}
      nth(k) == CHOOSE i \in kept : Cardinality({p \in kept : p <= i}) = k
  IN  [k \in 1..Cardinality(kept) |-> json[nth(k)]]

\* the string a reader finds as the value of the member that `member_key`
\* names first, None when the member is missing or its value is no string
string_member(json, member_key) ==
  IF ~Contains(json, member_key) THEN None
  ELSE LET p == (CHOOSE i \in Matches(json, member_key) :
                   \A j \in Matches(json, member_key) : i <= j) + Len(member_key)
           ends == {q \in string_quotes(json) : q > p}
       IN  IF p > Len(json) \/ json[p] # "\"" \/ ends = {} THEN None
           ELSE Some(unescape(json, p + 1,
                              (CHOOSE q \in ends : \A r \in ends : q <= r) - 1))

\* C28: the body of a convert request, for one to three types and any
\* background colour string or none, is well-formed JSON; it holds the
\* member "type" under "convert" and no member "convert_type"; it holds no
\* member "transform" when no colour is given; and with a colour, the string
\* under transform.background is the colour, character for character.
C28_Claim ==
  (call = "convert" /\ sent # <<>>) =>
    LET json == Unwrap(sent[1].json)
        transform == Unwrap(cv).transform
    IN  /\ well_formed(json)
        /\ Contains(json, CONVERT_KEY \o <<"{">> \o TYPE_QUOTED \o <<":">>)
        /\ ~Contains(json, CONVERT_TYPE_QUOTED)
        /\ IsNone(transform) => ~Contains(json, TRANSFORM_KEY)
        /\ IsSome(transform) =>
              /\ Contains(json, TRANSFORM_KEY \o <<"{">> \o BACKGROUND_KEY)
              /\ string_member(json, BACKGROUND_KEY) = transform

\* C29: every body an operation sends that holds a transform object holds a
\* convert object as well; a convert called with a colour sends both, a
\* convert without one and a resize send no transform.
C29_TransformWithConvert ==
  \A k \in 1..Len(sent) :
    IsSome(sent[k].json) =>
      LET json == Unwrap(sent[k].json)
      IN  /\ Contains(json, TRANSFORM_KEY) =>
                Contains(json, CONVERT_KEY \o <<"{">>)
          /\ call = "convert" =>
                (IsSome(Unwrap(cv).transform) <=>
                   Contains(json, TRANSFORM_KEY \o <<"{">>))
          /\ call = "resize" => ~Contains(json, TRANSFORM_KEY)

\* C29 witness: a convert with a background colour has sent a body with a
\* transform object behind its convert object.
C29_Witness ==
  /\ call = "convert"
  /\ sent # <<>>
  /\ IsSome(sent[1].json)
  /\ IsSome(Unwrap(cv).transform)
  /\ Contains(Unwrap(sent[1].json), TRANSFORM_KEY \o <<"{">> \o BACKGROUND_KEY)
  /\ Contains(Unwrap(sent[1].json), CONVERT_KEY \o <<"{">>)

====
